---- MODULE Spec2Model ----
(***************************************************************************)
(* Model of the TP/SL bracket monitor of place-order.js                     *)
(* (buyWithTPSLAndMonitor / shortSellWithTPSLAndMonitor) together with the  *)
(* OrderService calls it makes.  Every await of the async functions is one  *)
(* step; the setInterval callback is an async function, so several          *)
(* invocations of it can be in flight at once.                              *)
(***************************************************************************)
EXTENDS Integers, Sequences, FiniteSets, TLC

(* ------------------------------ bounds --------------------------------- *)
\* maxMonitorTime is 360 in the source; scaled down for checking
maxMonitorTime == 2
\* ticks the timer may fire beyond maxMonitorTime (fetches can keep failing)
ExtraTicks == 1
\* callback invocations that may be in flight at the same time
MaxInFlight == 2

(* ------------------------------ constants ------------------------------ *)
Variants == {"buy", "short", "legacy"}

NULL == "null"
NONE == "NONE"
NonTerminal == {"PENDING", "OPEN"}
Terminal == {"COMPLETE", "FILLED", "CANCELLED", "REJECTED"}
Status == NonTerminal \cup Terminal

\* maxAttempts of the entry-order wait loop
maxAttempts(v) == CASE v = "buy" -> 3 [] v = "short" -> 6 [] OTHER -> 12

VARIABLES
  variant,            \* which function runs
  pc,                 \* position of the setup part of the function
  attempts,           \* attempts of the entry wait loop
  gateway,            \* order id -> status at the broker (NONE: no such order)
  tpOrderId, slOrderId,
  monitoringActive, monitorCount,
  intervalSet,        \* the setInterval timer exists and is not cleared
  inflight,           \* invocations of the interval callback that are awaiting
  cancelLog,          \* cancelOrder calls issued, in order: [of, id]
  resolution,         \* terminal report printed last (ACTIVE: none yet)
  reports,            \* terminal reports printed, in order
  cancellationFailed, \* a "could not cancel" warning was printed
  errorSurfaced,      \* printError was called during setup
  unhandled,          \* an exception left the callback / the function
  lastTick            \* the callback invocation that finished last

monVars == <<variant, pc, attempts, gateway, tpOrderId, slOrderId,
             monitoringActive, monitorCount, intervalSet, inflight, cancelLog,
             resolution, reports, cancellationFailed, errorSurfaced, unhandled,
             lastTick>>

\* OrderService.placeOrder / validateOrderData (services/orderService.js)
VARIABLES
  ver,         \* which of the two copies of the class is loaded
  orderData,   \* the argument of the call
  opc,         \* position of the call
  order,       \* the order object built from orderData
  error,       \* the Error thrown to the caller (NoError: none)
  placeCalls   \* fyers.place_order requests sent

ordVars == <<ver, orderData, opc, order, error, placeCalls>>

\* the command line's cancel-all and emergency-close
VARIABLES
  cmd,          \* the command that runs: "cancel-all" or "emergency-close"
  cpc,          \* where the command stands
  positions,    \* the getPositions response, once fetched
  orders,       \* data.orderBook of the getOrders response, once fetched
  todo,         \* what the running for loop has still to visit
  placed,       \* the placeOrder calls made, in order, and how they ended
  cancelCalls,  \* the cancelOrder calls made, in order, and how they ended
  gwFailed,     \* some gateway call of this run failed
  outcome       \* the last line the command printed

cliVars == <<cmd, cpc, positions, orders, todo, placed, cancelCalls, gwFailed,
             outcome>>

\* MarketDataService
VARIABLES
  accessToken,        \* config.fyers.accessToken is set
  sock,               \* this.socket: "null", or the state of its connection
  isConnected,
  subscriptions,
  reconnectAttempts,
  socketHandlers,     \* how often setupEventHandlers registered on the socket
  listeners,          \* 'disconnected' listeners added by setupManualReconnect
  timers,             \* reconnect timers set and not yet fired
  connectCalls,       \* calls of connect() by the owner so far
  mdsError,           \* the last call of the owner threw
  disconnectCalled,   \* disconnect() ran and connect() has not run since
  awaitingReconnect,  \* the socket closed below the limit; no connect since
  lastConnectBy,      \* who issued the last socket.connect(): owner or timer
  connectAfterDisconnect \* a timer called socket.connect() after disconnect()

mdsVars == <<accessToken, sock, isConnected, subscriptions, reconnectAttempts,
             socketHandlers, listeners, timers, connectCalls, mdsError,
             disconnectCalled, awaitingReconnect, lastConnectBy,
             connectAfterDisconnect>>

\* TradingApp.initialize
VARIABLES
  apc,          \* where initialize stands
  isRunning,
  profile,      \* how getProfile ended, and the response if it returned
  funds,        \* how getFunds ended
  netPositions, \* how getPositions ended
  connectedAs,  \* the user name and e-mail logged after the profile fetch
  initError     \* the message of the error the outer catch received

appVars == <<apc, isRunning, profile, funds, netPositions, connectedAs,
             initError>>

\* SampleStrategy, for the one symbol of its watchlist that is followed here
VARIABLES
  isActive,
  priceHistory,     \* priceHistory.get(symbol)
  position,         \* positions.get(symbol), or Undefined
  ticks,            \* market ticks handed to onTick so far
  emitted,          \* the signals emitted while the last tick was processed
  tickHadPosition   \* hasPosition(symbol) while the last tick was processed

stratVars == <<isActive, priceHistory, position, ticks, emitted,
               tickHadPosition>>

\* what each component leaves alone
nonMonVars == <<ordVars, cliVars, mdsVars, appVars, stratVars>>
nonOrdVars == <<monVars, cliVars, mdsVars, appVars, stratVars>>
nonCliVars == <<monVars, ordVars, mdsVars, appVars, stratVars>>
nonMdsVars == <<monVars, ordVars, cliVars, appVars, stratVars>>
nonAppVars == <<monVars, ordVars, cliVars, mdsVars, stratVars>>
nonStratVars == <<monVars, ordVars, cliVars, mdsVars, appVars>>

vars == <<monVars, ordVars, cliVars, mdsVars, appVars, stratVars>>

\* a JavaScript value that may be undefined: <<>> or <<v>>
Undefined == <<>>
NoOrder == [symbol |-> Undefined, qty |-> Undefined, side |-> Undefined,
            type |-> Undefined, limitPrice |-> Undefined,
            stopPrice |-> Undefined]
NoOrderData == [symbol |-> Undefined, quantity |-> Undefined,
                side |-> Undefined, type |-> Undefined,
                limitPrice |-> Undefined, stopPrice |-> Undefined]
NoError == [msg |-> "", fields |-> <<>>]

\* no OrderService call is under way
OrdOff ==
  /\ ver = "v1"
  /\ orderData = NoOrderData
  /\ opc = "off"
  /\ order = NoOrder
  /\ error = NoError
  /\ placeCalls = 0

NoPositions == [shape |-> "none", list |-> <<>>]

\* no command is running
CliOff ==
  /\ cmd = "off"
  /\ cpc = "off"
  /\ positions = NoPositions
  /\ orders = Undefined
  /\ todo = <<>>
  /\ placed = <<>>
  /\ cancelCalls = <<>>
  /\ gwFailed = FALSE
  /\ outcome = ""

\* no MarketDataService exists
MdsIdle ==
  /\ sock = "off"
  /\ isConnected = FALSE
  /\ subscriptions = {}
  /\ reconnectAttempts = 0
  /\ socketHandlers = 0
  /\ listeners = 0
  /\ timers = 0
  /\ connectCalls = 0
  /\ mdsError = FALSE
  /\ disconnectCalled = FALSE
  /\ awaitingReconnect = FALSE
  /\ lastConnectBy = "none"
  /\ connectAfterDisconnect = FALSE

MdsOff == accessToken = FALSE /\ MdsIdle

NoProfile == [outcome |-> "none", name |-> Undefined,
              display_name |-> Undefined, email |-> Undefined,
              email_id |-> Undefined]

\* no TradingApp exists
AppOff ==
  /\ apc = "off"
  /\ isRunning = FALSE
  /\ profile = NoProfile
  /\ funds = "none"
  /\ netPositions = "none"
  /\ connectedAs = <<>>
  /\ initError = <<>>

\* no strategy exists
StratOff ==
  /\ isActive = FALSE
  /\ priceHistory = <<>>
  /\ position = Undefined
  /\ ticks = -1
  /\ emitted = <<>>
  /\ tickHadPosition = FALSE

NoTick == [n |-> 0, tp |-> "-", sl |-> "-", cancels |-> <<>>, result |-> "none",
           cancelFailed |-> FALSE, afterError |-> FALSE]

\* the record kept of a finished callback invocation; afterError: the
\* invocation that finished before it ended in the catch of a failed fetch
Finished(t, r, failed) ==
  [n |-> t.n, tp |-> t.tp, sl |-> t.sl, cancels |-> t.cancels, result |-> r,
   cancelFailed |-> failed, afterError |-> (lastTick.result = "fetchError")]

Init ==
  /\ variant \in Variants
  /\ pc = "placeEntry"
  /\ attempts = 0
  /\ gateway = [o \in {"TP", "SL"} |-> NONE]
  /\ tpOrderId = NULL
  /\ slOrderId = NULL
  /\ monitoringActive = FALSE
  /\ monitorCount = 0
  /\ intervalSet = FALSE
  /\ inflight = {}
  /\ cancelLog = <<>>
  /\ resolution = "ACTIVE"
  /\ reports = <<>>
  /\ cancellationFailed = FALSE
  /\ errorSurfaced = FALSE
  /\ unhandled = FALSE
  /\ lastTick = NoTick
  /\ OrdOff
  /\ CliOff
  /\ MdsOff
  /\ AppOff
  /\ StratOff

(* ------------------------- setup of the bracket ------------------------ *)
\* variant of IsFilled that knows only one of the two status words
IsFilledOneWord(s) == s = "FILLED"

\* status === 'COMPLETE' || status === 'FILLED'
IsFilled(s) == s \in {"COMPLETE", "FILLED"}

\* orders.data?.orderBook?.find(o => o.id === id): the status found, or NONE
Lookup(id) == IF id = NULL THEN NONE ELSE gateway[id]

\* the entry wait loop returns when the entry order shows CANCELLED
HasCancelledCheck(v) == v \in {"short", "legacy"}

\* part_000: if (!tpOrderId || !slOrderId) return; removed from place-order.js
RequiresBothPlaced(v) == v = "legacy"

\* const monitor = setInterval(...) after the placement of the two siblings;
\* err: an error was already printed during setup
StartMonitoring(tp, sl, err) ==
  IF RequiresBothPlaced(variant) /\ (tp = NULL \/ sl = NULL)
  THEN /\ pc' = "returned"
       /\ errorSurfaced' = TRUE
       /\ UNCHANGED <<monitoringActive, intervalSet>>
  ELSE /\ pc' = "monitoring"
       /\ errorSurfaced' = err
       /\ monitoringActive' = TRUE
       /\ intervalSet' = TRUE

\* Step 1: await orderService.placeOrder(entry); a throw reaches the outer catch
PlaceEntry ==
  /\ pc = "placeEntry"
  /\ \E ok \in BOOLEAN :
       IF ok
       THEN pc' = "waitEntry" /\ UNCHANGED errorSurfaced
       ELSE pc' = "returned" /\ errorSurfaced' = TRUE
  /\ UNCHANGED nonMonVars
  /\ UNCHANGED <<variant, attempts, gateway, tpOrderId, slOrderId,
                 monitoringActive, monitorCount, intervalSet, inflight,
                 cancelLog, resolution, reports, cancellationFailed, unhandled,
                 lastTick>>

\* one iteration of while (!executed && attempts < maxAttempts); st is what
\* the poll shows for the entry order (NONE: not found, or getOrders threw).
\* attempts is a local of the loop and is dead once the loop is left.
WaitEntry ==
  /\ pc = "waitEntry"
  /\ attempts < maxAttempts(variant)
  /\ \E st \in Status \cup {NONE} :
       IF IsFilled(st)
       THEN pc' = "placeTP" /\ attempts' = 0 /\ UNCHANGED errorSurfaced
       ELSE IF HasCancelledCheck(variant) /\ st = "CANCELLED"
       THEN pc' = "returned" /\ attempts' = 0 /\ errorSurfaced' = TRUE
       ELSE IF attempts + 1 < maxAttempts(variant)
       THEN pc' = "waitEntry" /\ attempts' = attempts + 1
                              /\ UNCHANGED errorSurfaced
       ELSE pc' = "placeTP" /\ attempts' = 0 /\ UNCHANGED errorSurfaced
  /\ UNCHANGED nonMonVars
  /\ UNCHANGED <<variant, gateway, tpOrderId, slOrderId, monitoringActive,
                 monitorCount, intervalSet, inflight, cancelLog, resolution,
                 reports, cancellationFailed, unhandled, lastTick>>

\* Step 2a: the take-profit placement, in its own try/catch
PlaceTP ==
  /\ pc = "placeTP"
  /\ \E ok \in BOOLEAN :
       IF ok
       THEN /\ tpOrderId' = "TP"
            /\ gateway' = [gateway EXCEPT !["TP"] = "PENDING"]
            /\ UNCHANGED errorSurfaced
       ELSE /\ errorSurfaced' = TRUE
            /\ UNCHANGED <<tpOrderId, gateway>>
  /\ pc' = "placeSL"
  /\ UNCHANGED nonMonVars
  /\ UNCHANGED <<variant, attempts, slOrderId, monitoringActive, monitorCount,
                 intervalSet, inflight, cancelLog, resolution, reports,
                 cancellationFailed, unhandled, lastTick>>

\* Step 2b: the stop-loss placement, in its own try/catch
PlaceSL ==
  /\ pc = "placeSL"
  /\ \E ok \in BOOLEAN :
       IF ok
       THEN /\ slOrderId' = "SL"
            /\ gateway' = [gateway EXCEPT !["SL"] = "PENDING"]
            /\ StartMonitoring(tpOrderId, "SL", errorSurfaced)
       ELSE /\ UNCHANGED <<slOrderId, gateway>>
            /\ IF variant = "short"
               THEN /\ pc' = "placeSLFallback"
                    /\ errorSurfaced' = TRUE
                    /\ UNCHANGED <<monitoringActive, intervalSet>>
               ELSE StartMonitoring(tpOrderId, NULL, TRUE)
  /\ UNCHANGED nonMonVars
  /\ UNCHANGED <<variant, attempts, tpOrderId, monitorCount, inflight,
                 cancelLog, resolution, reports, cancellationFailed, unhandled,
                 lastTick>>

\* short sell only: the type-4 fallback inside the stop-loss catch
PlaceSLFallback ==
  /\ pc = "placeSLFallback"
  /\ \E ok \in BOOLEAN :
       IF ok
       THEN /\ slOrderId' = "SL"
            /\ gateway' = [gateway EXCEPT !["SL"] = "PENDING"]
            /\ StartMonitoring(tpOrderId, "SL", TRUE)
       ELSE /\ UNCHANGED <<slOrderId, gateway>>
            /\ StartMonitoring(tpOrderId, NULL, TRUE)
  /\ UNCHANGED nonMonVars
  /\ UNCHANGED <<variant, attempts, tpOrderId, monitorCount, inflight,
                 cancelLog, resolution, reports, cancellationFailed, unhandled,
                 lastTick>>

(* ----------------------- the interval callback ------------------------ *)
\* what a snapshot may show for an order: its status, or nothing when the
\* order book omits it (orders.data?.orderBook absent, entry purged)
Seen(id) == {Lookup(id), NONE}

\* variant of Decide that takes an order missing from the book for a filled one
DecideAbsentIsFilled(tp, sl) ==
  IF tp = NONE \/ IsFilled(tp) THEN "cancelSL"
  ELSE IF sl = NONE \/ IsFilled(sl) THEN "cancelTP"
  ELSE "none"

\* variant of Decide that acts on any terminal status, not only on a fill
DecideOnAnyTerminal(tp, sl) ==
  IF tp \in Terminal THEN "cancelSL"
  ELSE IF sl \in Terminal THEN "cancelTP"
  ELSE "none"

\* the two ifs of the callback, in source order
Decide(tp, sl) ==
  IF IsFilled(tp) THEN "cancelSL"
  ELSE IF IsFilled(sl) THEN "cancelTP"
  ELSE "none"

\* variant of StopMonitoring that leaves the monitor running
StopMonitoringForgotten == UNCHANGED <<monitoringActive, intervalSet>>

\* monitoringActive = false; clearInterval(monitor);
StopMonitoring ==
  /\ monitoringActive' = FALSE
  /\ intervalSet' = FALSE

\* the terminal report printed after the stop
Report(r) ==
  /\ resolution' = r
  /\ reports' = Append(reports, r)

\* the expiry test written with === instead of >=
ExpiryDueExactly(count) == count = maxMonitorTime

\* if (monitorCount >= maxMonitorTime) { ... }
ExpiryDue(count) == count >= maxMonitorTime

\* variant of CheckExpiry that cancels both siblings when the session expires
CheckExpiryCancelsBoth(t) ==
  IF ExpiryDue(monitorCount)
  THEN /\ cancelLog' = cancelLog \o <<[of |-> "SL", id |-> slOrderId],
                                      [of |-> "TP", id |-> tpOrderId]>>
       /\ StopMonitoring
       /\ Report("EXPIRED")
       /\ lastTick' = Finished(t, "EXPIRED", FALSE)
  ELSE /\ UNCHANGED <<cancelLog, monitoringActive, intervalSet, resolution,
                      reports>>
       /\ lastTick' = Finished(t, "ACTIVE", FALSE)

\* the tail of a callback run that saw no fill
CheckExpiry(t) ==
  /\ UNCHANGED cancelLog
  /\ IF ExpiryDue(monitorCount)
     THEN /\ StopMonitoring
          /\ Report("EXPIRED")
          /\ lastTick' = Finished(t, "EXPIRED", FALSE)
     ELSE /\ UNCHANGED <<monitoringActive, intervalSet, resolution, reports>>
          /\ lastTick' = Finished(t, "ACTIVE", FALSE)

\* the timer fires: if (!monitoringActive) return; monitorCount++;
\* then the callback awaits orderService.getOrders()
TickFire ==
  /\ intervalSet
  /\ monitorCount < maxMonitorTime + ExtraTicks
  /\ Cardinality(inflight) < MaxInFlight
  /\ IF ~monitoringActive
     THEN UNCHANGED <<monitorCount, inflight>>
     ELSE /\ monitorCount' = monitorCount + 1
          /\ inflight' = inflight \cup
               {[n |-> monitorCount + 1, pc |-> "getOrders", tp |-> "-",
                 sl |-> "-", cancels |-> <<>>]}
  /\ UNCHANGED nonMonVars
  /\ UNCHANGED <<variant, pc, attempts, gateway, tpOrderId, slOrderId,
                 monitoringActive, intervalSet, cancelLog, resolution, reports,
                 cancellationFailed, errorSurfaced, unhandled, lastTick>>

\* variant of GetOrdersThrow in which the expiry check also runs after a throw
GetOrdersThrowThenExpiry(t) ==
  /\ t \in inflight
  /\ t.pc = "getOrders"
  /\ inflight' = inflight \ {t}
  /\ lastTick' = Finished(t, "fetchError", FALSE)
  /\ IF ExpiryDue(monitorCount)
     THEN StopMonitoring /\ Report("EXPIRED")
     ELSE UNCHANGED <<monitoringActive, intervalSet, resolution, reports>>
  /\ UNCHANGED nonMonVars
  /\ UNCHANGED <<variant, pc, attempts, gateway, tpOrderId, slOrderId,
                 monitorCount, cancelLog, cancellationFailed, errorSurfaced,
                 unhandled>>

\* variant of GetOrdersThrow without the try/catch around the callback body:
\* the rejection leaves the callback
GetOrdersThrowUncaught(t) ==
  /\ t \in inflight
  /\ t.pc = "getOrders"
  /\ inflight' = inflight \ {t}
  /\ lastTick' = Finished(t, "fetchError", FALSE)
  /\ unhandled' = TRUE
  /\ UNCHANGED nonMonVars
  /\ UNCHANGED <<variant, pc, attempts, gateway, tpOrderId, slOrderId,
                 monitoringActive, monitorCount, intervalSet, cancelLog,
                 resolution, reports, cancellationFailed, errorSurfaced>>

\* getOrders throws: the catch at the end of the callback logs the error
GetOrdersThrow(t) ==
  /\ t \in inflight
  /\ t.pc = "getOrders"
  /\ inflight' = inflight \ {t}
  /\ lastTick' = Finished(t, "fetchError", FALSE)
  /\ UNCHANGED nonMonVars
  /\ UNCHANGED <<variant, pc, attempts, gateway, tpOrderId, slOrderId,
                 monitoringActive, monitorCount, intervalSet, cancelLog,
                 resolution, reports, cancellationFailed, errorSurfaced,
                 unhandled>>

\* getOrders returns: look the two siblings up and take a branch
GetOrdersReturn(t) ==
  /\ t \in inflight
  /\ t.pc = "getOrders"
  /\ \E tp \in Seen(tpOrderId), sl \in Seen(slOrderId) :
       LET d == Decide(tp, sl)
           u == [t EXCEPT !.tp = tp, !.sl = sl]
       IN
       CASE d = "cancelSL" ->
              /\ cancelLog' = Append(cancelLog, [of |-> "SL", id |-> slOrderId])
              /\ inflight' = (inflight \ {t}) \cup
                   {[u EXCEPT !.pc = "cancelSL", !.cancels = <<slOrderId>>]}
              /\ UNCHANGED <<monitoringActive, intervalSet, resolution,
                             reports, lastTick>>
         [] d = "cancelTP" ->
              /\ cancelLog' = Append(cancelLog, [of |-> "TP", id |-> tpOrderId])
              /\ inflight' = (inflight \ {t}) \cup
                   {[u EXCEPT !.pc = "cancelTP", !.cancels = <<tpOrderId>>]}
              /\ UNCHANGED <<monitoringActive, intervalSet, resolution,
                             reports, lastTick>>
         [] OTHER ->
              IF variant = "short"
              THEN /\ inflight' = (inflight \ {t}) \cup
                        {[u EXCEPT !.pc = "getPositions"]}
                   /\ UNCHANGED <<cancelLog, monitoringActive, intervalSet,
                                  resolution, reports, lastTick>>
              ELSE /\ inflight' = inflight \ {t}
                   /\ CheckExpiry(u)
  /\ UNCHANGED nonMonVars
  /\ UNCHANGED <<variant, pc, attempts, gateway, tpOrderId, slOrderId,
                 monitorCount, cancellationFailed, errorSurfaced, unhandled>>

\* short sell only: getPositions returns or throws (the throw is ignored)
GetPositionsDone(t) ==
  /\ t \in inflight
  /\ t.pc = "getPositions"
  /\ inflight' = inflight \ {t}
  /\ CheckExpiry(t)
  /\ UNCHANGED nonMonVars
  /\ UNCHANGED <<variant, pc, attempts, gateway, tpOrderId, slOrderId,
                 monitorCount, cancellationFailed, errorSurfaced, unhandled>>

\* variant of ResultOf that reports a profit on both branches
ResultOfAlwaysProfit(p) == "RESOLVED_PROFIT"

\* what a tick reports once its cancel call has come back
ResultOf(p) == IF p = "cancelSL" THEN "RESOLVED_PROFIT" ELSE "RESOLVED_LOSS"

\* the gateway accepts a cancel only for an order that is still working
Cancellable(id) == id # NULL /\ gateway[id] \in NonTerminal

\* variant of CancelDone without the inner try/catch: a failed cancel reaches
\* the catch at the end of the callback, which only logs
CancelDoneNoInnerCatch(t) ==
  /\ t \in inflight
  /\ t.pc \in {"cancelSL", "cancelTP"}
  /\ LET id == t.cancels[1] IN
     \E ok \in BOOLEAN :
       /\ ok => Cancellable(id)
       /\ IF ok
          THEN /\ gateway' = [gateway EXCEPT ![id] = "CANCELLED"]
               /\ lastTick' = Finished(t, ResultOf(t.pc), FALSE)
               /\ StopMonitoring
               /\ Report(ResultOf(t.pc))
          ELSE /\ lastTick' = Finished(t, "error", TRUE)
               /\ UNCHANGED <<gateway, monitoringActive, intervalSet,
                              resolution, reports>>
  /\ inflight' = inflight \ {t}
  /\ UNCHANGED nonMonVars
  /\ UNCHANGED <<variant, pc, attempts, tpOrderId, slOrderId, monitorCount,
                 cancelLog, cancellationFailed, errorSurfaced, unhandled>>

\* cancelOrder comes back (ok, or a throw caught by the inner catch), then
\* monitoringActive = false; clearInterval(monitor); the report; return
CancelDone(t) ==
  /\ t \in inflight
  /\ t.pc \in {"cancelSL", "cancelTP"}
  /\ LET id == t.cancels[1] IN
     \E ok \in BOOLEAN :
       /\ ok => Cancellable(id)
       /\ IF ok
          THEN /\ gateway' = [gateway EXCEPT ![id] = "CANCELLED"]
               /\ UNCHANGED cancellationFailed
          ELSE /\ cancellationFailed' = TRUE
               /\ UNCHANGED gateway
       /\ lastTick' = Finished(t, ResultOf(t.pc), ~ok)
  /\ StopMonitoring
  /\ Report(ResultOf(t.pc))
  /\ inflight' = inflight \ {t}
  /\ UNCHANGED nonMonVars
  /\ UNCHANGED <<variant, pc, attempts, tpOrderId, slOrderId, monitorCount,
                 cancelLog, errorSurfaced, unhandled>>

\* variant of Sigint without process.exit(0): awaiting invocations go on
SigintNoExit ==
  /\ pc = "monitoring"
  /\ StopMonitoring
  /\ pc' = "exited"
  /\ UNCHANGED nonMonVars
  /\ UNCHANGED <<variant, attempts, gateway, tpOrderId, slOrderId,
                 monitorCount, inflight, cancelLog, resolution, reports,
                 cancellationFailed, errorSurfaced, unhandled, lastTick>>

\* process.on('SIGINT'): stop the monitor and exit the process
Sigint ==
  /\ pc = "monitoring"
  /\ StopMonitoring
  /\ pc' = "exited"
  /\ inflight' = {}
  /\ UNCHANGED nonMonVars
  /\ UNCHANGED <<variant, attempts, gateway, tpOrderId, slOrderId,
                 monitorCount, cancelLog, resolution, reports,
                 cancellationFailed, errorSurfaced, unhandled, lastTick>>

(* ------------------------------ the broker ----------------------------- *)
\* the broker moves a working order on
GatewayStep(o, s) ==
  /\ gateway[o] \in NonTerminal
  /\ s # gateway[o]
  /\ gateway[o] = "OPEN" => s \in Terminal
  /\ gateway' = [gateway EXCEPT ![o] = s]
  /\ UNCHANGED nonMonVars
  /\ UNCHANGED <<variant, pc, attempts, tpOrderId, slOrderId, monitoringActive,
                 monitorCount, intervalSet, inflight, cancelLog, resolution,
                 reports, cancellationFailed, errorSurfaced, unhandled,
                 lastTick>>

Next ==
  \/ PlaceEntry
  \/ WaitEntry
  \/ PlaceTP
  \/ PlaceSL
  \/ PlaceSLFallback
  \/ TickFire
  \/ \E t \in inflight : GetOrdersThrow(t)
  \/ \E t \in inflight : GetOrdersReturn(t)
  \/ \E t \in inflight : GetPositionsDone(t)
  \/ \E t \in inflight : CancelDone(t)
  \/ Sigint
  \/ \E o \in {"TP", "SL"}, s \in Status : GatewayStep(o, s)

Spec == Init /\ [][Next]_vars

\* "fetches do not fail forever", within the ticks that are run: the fetch of
\* the last tick does not fail
FetchMayFail(t) == t.n < maxMonitorTime + ExtraTicks

NextLive ==
  \/ PlaceEntry
  \/ WaitEntry
  \/ PlaceTP
  \/ PlaceSL
  \/ PlaceSLFallback
  \/ TickFire
  \/ \E t \in inflight : FetchMayFail(t) /\ GetOrdersThrow(t)
  \/ \E t \in inflight : GetOrdersReturn(t)
  \/ \E t \in inflight : GetPositionsDone(t)
  \/ \E t \in inflight : CancelDone(t)
  \/ Sigint
  \/ \E o \in {"TP", "SL"}, s \in Status : GatewayStep(o, s)

\* an awaited gateway call of an invocation comes back
AwaitReturns ==
  \E t \in inflight :
    \/ FetchMayFail(t) /\ GetOrdersThrow(t)
    \/ GetOrdersReturn(t)
    \/ GetPositionsDone(t)
    \/ CancelDone(t)

\* the interval keeps firing while it is set, and awaited calls come back
SpecLive == Init /\ [][NextLive]_vars /\ WF_vars(TickFire) /\ WF_vars(AwaitReturns)

TypeOK ==
  /\ variant \in Variants
  /\ monitorCount \in 0..(maxMonitorTime + ExtraTicks)
  /\ Cardinality(inflight) <= MaxInFlight
  /\ resolution \in {"ACTIVE", "RESOLVED_PROFIT", "RESOLVED_LOSS", "EXPIRED"}

(* --------------------------- the order service ------------------------- *)
Versions == {"v1", "v2"}

\* the arguments tried
Symbols == {Undefined, <<"NSE:SBIN-EQ">>}
Quantities == {Undefined, <<0>>, <<-1>>, <<10>>}
Sides == {Undefined, <<0>>, <<1>>, <<-1>>, <<2>>}
Types == {Undefined, <<1>>, <<2>>, <<3>>, <<4>>, <<5>>}
Prices == {Undefined, <<0>>, <<-5>>, <<100>>, <<101>>}
OrderInputs ==
  [symbol : Symbols, quantity : Quantities, side : Sides, type : Types,
   limitPrice : Prices, stopPrice : Prices]

\* !v for a number or undefined, and for a string or undefined
Falsy(v) == v = Undefined \/ v = <<0>>
FalsySym(v) == v = Undefined \/ v = <<"">>

\* v || d
OrElse(v, d) == IF Falsy(v) THEN <<d>> ELSE v

\* [..].includes(order.type)
TypeIn(o, S) == o.type # Undefined /\ o.type[1] \in S

\* the order object placeOrder builds from its argument
BuildOrder(vr, d) ==
  IF vr = "v1"
  THEN [symbol |-> d.symbol, qty |-> d.quantity, side |-> d.side,
        type |-> OrElse(d.type, 2),
        limitPrice |-> OrElse(d.limitPrice, 0),
        stopPrice |-> OrElse(d.stopPrice, 0)]
  ELSE [symbol |-> d.symbol, qty |-> d.quantity, side |-> d.side,
        type |-> OrElse(d.type, 2),
        limitPrice |-> d.limitPrice,
        stopPrice |-> d.stopPrice]

\* an order object handed to validateOrderData as it is
DirectOrder(d) ==
  [symbol |-> d.symbol, qty |-> d.quantity, side |-> d.side, type |-> d.type,
   limitPrice |-> d.limitPrice, stopPrice |-> d.stopPrice]

RequiredFields == <<"symbol", "qty", "side">>

\* required.filter(field => !order[field])
Missing(o) ==
  SelectSeq(RequiredFields,
            LAMBDA f : IF f = "symbol" THEN FalsySym(o.symbol) ELSE Falsy(o[f]))

Err(m) == [msg |-> m, fields |-> <<>>]

\* the price test with the sign test left out
NotPositiveOnlyAbsent(p) == Falsy(p)

\* !p || p <= 0
NotPositive(p) == Falsy(p) \/ p[1] <= 0

\* validateOrderData of the first copy: the Error it throws, or NoError
ValidateV1(o) ==
  IF Missing(o) # <<>>
  THEN [msg |-> "Missing required order fields", fields |-> Missing(o)]
  ELSE IF o.qty[1] <= 0
  THEN Err("Order quantity must be greater than 0")
  ELSE IF o.side[1] \notin {1, -1}
  THEN Err("Order side must be 1 (Buy) or -1 (Sell)")
  ELSE IF ~TypeIn(o, {1, 2, 3, 4})
  THEN Err("Invalid order type")
  ELSE IF TypeIn(o, {1}) /\ NotPositive(o.limitPrice)
  THEN Err("Limit price required for limit orders")
  ELSE IF TypeIn(o, {3, 4}) /\ NotPositive(o.stopPrice)
  THEN Err("Stop price required for stop orders")
  ELSE NoError

\* validateOrderData of the second copy
ValidateV2(o) ==
  IF Missing(o) # <<>>
  THEN [msg |-> "Missing required order fields", fields |-> RequiredFields]
  ELSE IF TypeIn(o, {1, 3}) /\ NotPositive(o.limitPrice)
  THEN Err("Limit price required for limit and stop-limit orders")
  ELSE IF TypeIn(o, {3, 4}) /\ NotPositive(o.stopPrice)
  THEN Err("Stop price required for stop orders")
  ELSE IF TypeIn(o, {3}) /\ o.side[1] = 1 /\ o.limitPrice[1] >= o.stopPrice[1]
  THEN Err("For BUY stop orders: limitPrice must be less than stopPrice")
  ELSE IF TypeIn(o, {3}) /\ o.side[1] = -1 /\ o.limitPrice[1] >= o.stopPrice[1]
  THEN Err("For SELL stop orders: limitPrice must be less than stopPrice")
  ELSE NoError

validateOrderData(vr, o) == IF vr = "v1" THEN ValidateV1(o) ELSE ValidateV2(o)

\* the bracket monitor is not running
MonOff ==
  /\ variant = "buy"
  /\ pc = "off"
  /\ attempts = 0
  /\ gateway = [o \in {"TP", "SL"} |-> NONE]
  /\ tpOrderId = NULL
  /\ slOrderId = NULL
  /\ monitoringActive = FALSE
  /\ monitorCount = 0
  /\ intervalSet = FALSE
  /\ inflight = {}
  /\ cancelLog = <<>>
  /\ resolution = "ACTIVE"
  /\ reports = <<>>
  /\ cancellationFailed = FALSE
  /\ errorSurfaced = FALSE
  /\ unhandled = FALSE
  /\ lastTick = NoTick

OrdInit ==
  /\ MonOff
  /\ ver \in Versions
  /\ orderData \in OrderInputs
  /\ opc = "idle"
  /\ order = NoOrder
  /\ error = NoError
  /\ placeCalls = 0
  /\ CliOff
  /\ MdsOff
  /\ AppOff
  /\ StratOff

\* placeOrder up to its await: build the order, validate it, send it; a
\* validation error is logged and thrown again by the catch
PlaceOrderCall ==
  /\ opc = "idle"
  /\ LET o == BuildOrder(ver, orderData)
         e == validateOrderData(ver, o)
     IN /\ order' = o
        /\ IF e # NoError
           THEN /\ error' = e
                /\ opc' = "rejected"
                /\ UNCHANGED placeCalls
           ELSE /\ placeCalls' = placeCalls + 1
                /\ opc' = "awaitGateway"
                /\ UNCHANGED error
  /\ UNCHANGED <<ver, orderData>>
  /\ UNCHANGED nonOrdVars

\* fyers.place_order answers: s === 'ok' returns the response, anything else
\* (or a throw) is thrown to the caller
PlaceOrderResponse ==
  /\ opc = "awaitGateway"
  /\ \E ok \in BOOLEAN :
       IF ok
       THEN opc' = "returned" /\ UNCHANGED error
       ELSE opc' = "rejected" /\ error' = Err("Order placement failed")
  /\ UNCHANGED <<ver, orderData, order, placeCalls>>
  /\ UNCHANGED nonOrdVars

\* validateOrderData called on its own with an order object
ValidateDirect ==
  /\ opc = "idle"
  /\ order' = DirectOrder(orderData)
  /\ error' = validateOrderData(ver, DirectOrder(orderData))
  /\ opc' = "validated"
  /\ UNCHANGED <<ver, orderData, placeCalls>>
  /\ UNCHANGED nonOrdVars

OrdNext ==
  \/ PlaceOrderCall
  \/ PlaceOrderResponse
  \/ ValidateDirect

SpecOrder == OrdInit /\ [][OrdNext]_vars

(* ------------------- cancel-all and emergency-close -------------------- *)
MaxPositions == 2
MaxOrders == 2

\* the i-th position and the i-th order of a response
SymbolOf(i) == IF i = 1 THEN "NSE:SBIN-EQ" ELSE IF i = 2 THEN "NSE:TCS-EQ" ELSE "NSE:INFY-EQ"
IdOf(i) == IF i = 1 THEN "O1" ELSE IF i = 2 THEN "O2" ELSE "O3"

NetQtys == {-3, 0, 3}
ProductTypes == {"INTRADAY", "MIS", "CNC"}
BookStatuses == {"PENDING", "OPEN", "COMPLETE"}
BookProductTypes == {"INTRADAY", "CNC"}

\* the position lists and order books the gateway may answer with
PositionLists ==
  UNION {{[i \in 1..n |-> [symbol |-> SymbolOf(i), netQty |-> q[i],
                           productType |-> p[i]]] :
            q \in [1..n -> NetQtys], p \in [1..n -> ProductTypes]} :
         n \in 0..MaxPositions}
OrderBooks ==
  UNION {{[i \in 1..n |-> [id |-> IdOf(i), status |-> s[i],
                           productType |-> p[i]]] :
            s \in [1..n -> BookStatuses], p \in [1..n -> BookProductTypes]} :
         n \in 0..MaxOrders}

\* where the response carries the list
Shapes == {"netPositions", "data.netPositions", "data.positions"}

\* allPositions: the first of the three places that holds a list
allPositions(resp) == IF resp.shape \in Shapes THEN resp.list ELSE <<>>

\* pos.netQty !== 0 && (productType === 'INTRADAY' || productType === 'MIS')
IsOpenIntraday(pos) ==
  pos.netQty # 0 /\ pos.productType \in {"INTRADAY", "MIS"}

intradayPositions(resp) ==
  SelectSeq(allPositions(resp), LAMBDA pos : IsOpenIntraday(pos))

\* order.status === 'PENDING' || order.status === 'OPEN'
IsPending(o) == o.status \in NonTerminal

pendingOrders(book) == SelectSeq(book, LAMBDA o : IsPending(o))

intradayPendingOrders(book) ==
  SelectSeq(book, LAMBDA o : IsPending(o) /\ o.productType \in {"INTRADAY", "MIS"})

Abs(n) == IF n < 0 THEN -n ELSE n

\* the argument of the placeOrder call that closes a position
CloseOrderData(pos) ==
  [symbol |-> <<pos.symbol>>,
   quantity |-> <<Abs(pos.netQty)>>,
   side |-> <<IF pos.netQty > 0 THEN -1 ELSE 1>>,
   type |-> <<2>>,
   limitPrice |-> Undefined,
   stopPrice |-> Undefined]

CliInit ==
  /\ MonOff
  /\ ver \in Versions
  /\ orderData = NoOrderData
  /\ opc = "off"
  /\ order = NoOrder
  /\ error = NoError
  /\ placeCalls = 0
  /\ cmd \in {"cancel-all", "emergency-close"}
  /\ cpc = "start"
  /\ positions = NoPositions
  /\ orders = Undefined
  /\ todo = <<>>
  /\ placed = <<>>
  /\ cancelCalls = <<>>
  /\ gwFailed = FALSE
  /\ outcome = ""
  /\ MdsOff
  /\ AppOff
  /\ StratOff

\* await orderService.getOrders() and the filter that follows it: a failed
\* fetch ends in the outer catch, a response without data.orderBook and an
\* empty selection end the function, anything else starts the for loop;
\* intradayOnly tells cancelIntradayOrders' filter from cancelAllOrders'
FetchOrders(intradayOnly, failedMsg, noneMsg, loop) ==
  \/ /\ gwFailed' = TRUE
     /\ outcome' = failedMsg
     /\ cpc' = "done"
     /\ UNCHANGED <<orders, todo>>
  \/ /\ orders' = Undefined
     /\ outcome' = "No orders found"
     /\ cpc' = "done"
     /\ UNCHANGED <<gwFailed, todo>>
  \/ \E book \in OrderBooks :
       LET selected == IF intradayOnly THEN intradayPendingOrders(book)
                                       ELSE pendingOrders(book)
       IN /\ orders' = <<book>>
          /\ todo' = selected
          /\ IF selected = <<>>
             THEN outcome' = noneMsg /\ cpc' = "done"
             ELSE outcome' = "Found pending orders" /\ cpc' = loop
          /\ UNCHANGED gwFailed

\* the loop with the try/catch around the whole loop instead of its body
CancelNextStopsOnFailure(doneMsg) ==
  /\ todo # <<>>
  /\ \E ok \in BOOLEAN :
       /\ cancelCalls' = Append(cancelCalls, [id |-> Head(todo).id, ok |-> ok])
       /\ gwFailed' = (gwFailed \/ ~ok)
       /\ IF ok
          THEN /\ todo' = Tail(todo)
               /\ IF Tail(todo) = <<>>
                  THEN outcome' = doneMsg /\ cpc' = "done"
                  ELSE UNCHANGED <<outcome, cpc>>
          ELSE /\ todo' = <<>>
               /\ outcome' = "Cancel all failed"
               /\ cpc' = "done"

\* one turn of a cancelling for loop: cancelOrder on the next order; a throw
\* is caught inside the loop body
CancelNext(doneMsg) ==
  /\ todo # <<>>
  /\ \E ok \in BOOLEAN :
       /\ cancelCalls' = Append(cancelCalls, [id |-> Head(todo).id, ok |-> ok])
       /\ gwFailed' = (gwFailed \/ ~ok)
  /\ todo' = Tail(todo)
  /\ IF Tail(todo) = <<>>
     THEN outcome' = doneMsg /\ cpc' = "done"
     ELSE UNCHANGED <<outcome, cpc>>

cancelAllOrdersFetch ==
  /\ cmd = "cancel-all"
  /\ cpc = "start"
  /\ FetchOrders(FALSE, "Cancel all failed",
                 "No pending orders to cancel", "cancelling")
  /\ UNCHANGED <<cmd, positions, placed, cancelCalls>>
  /\ UNCHANGED nonCliVars

cancelAllOrdersNext ==
  /\ cmd = "cancel-all"
  /\ cpc = "cancelling"
  /\ CancelNext("Finished cancelling orders")
  /\ UNCHANGED <<cmd, positions, orders, placed>>
  /\ UNCHANGED nonCliVars

\* emergencyClose up to its for loop
emergencyCloseFetch ==
  /\ cmd = "emergency-close"
  /\ cpc = "start"
  /\ \/ /\ gwFailed' = TRUE
        /\ outcome' = "Emergency closure failed"
        /\ cpc' = "done"
        /\ UNCHANGED <<positions, todo>>
     \/ \E shape \in Shapes, list \in PositionLists :
          LET resp == [shape |-> shape, list |-> list]
          IN /\ positions' = resp
             /\ todo' = intradayPositions(resp)
             /\ IF intradayPositions(resp) = <<>>
                THEN outcome' = "No open INTRADAY positions found"
                     /\ cpc' = "cancelIntraday"
                ELSE outcome' = "Closing INTRADAY positions"
                     /\ cpc' = "closing"
             /\ UNCHANGED gwFailed
  /\ UNCHANGED <<cmd, orders, placed, cancelCalls>>
  /\ UNCHANGED nonCliVars

\* one turn of the closing loop: placeOrder validates, sends and throws on
\* anything but 'ok'; the throw is caught inside the loop body
emergencyCloseNext ==
  /\ cmd = "emergency-close"
  /\ cpc = "closing"
  /\ todo # <<>>
  /\ LET d == CloseOrderData(Head(todo))
         e == validateOrderData(ver, BuildOrder(ver, d))
     IN IF e # NoError
        THEN UNCHANGED <<placed, gwFailed>>
        ELSE \E ok \in BOOLEAN :
               /\ placed' = Append(placed,
                                   [symbol |-> d.symbol[1], qty |-> d.quantity[1],
                                    side |-> d.side[1], type |-> d.type[1],
                                    productType |-> "INTRADAY", ok |-> ok])
               /\ gwFailed' = (gwFailed \/ ~ok)
  /\ todo' = Tail(todo)
  /\ IF Tail(todo) = <<>>
     THEN cpc' = "cancelIntraday"
     ELSE UNCHANGED cpc
  /\ UNCHANGED <<cmd, positions, orders, cancelCalls, outcome>>
  /\ UNCHANGED nonCliVars

\* cancelIntradayOrders, awaited by emergencyClose after the loop
cancelIntradayOrdersFetch ==
  /\ cmd = "emergency-close"
  /\ cpc = "cancelIntraday"
  /\ FetchOrders(TRUE, "Cancel INTRADAY orders failed",
                 "INTRADAY emergency closure completed", "cancellingIntraday")
  /\ UNCHANGED <<cmd, positions, placed, cancelCalls>>
  /\ UNCHANGED nonCliVars

cancelIntradayOrdersNext ==
  /\ cmd = "emergency-close"
  /\ cpc = "cancellingIntraday"
  /\ CancelNext("INTRADAY emergency closure completed")
  /\ UNCHANGED <<cmd, positions, orders, placed>>
  /\ UNCHANGED nonCliVars

CliNext ==
  \/ cancelAllOrdersFetch
  \/ cancelAllOrdersNext
  \/ emergencyCloseFetch
  \/ emergencyCloseNext
  \/ cancelIntradayOrdersFetch
  \/ cancelIntradayOrdersNext

SpecCli == CliInit /\ [][CliNext]_vars

(* -------------------------- MarketDataService -------------------------- *)
maxReconnectAttempts == 5

MaxConnectCalls == 2
MaxTimers == 3
FeedSymbols == {"NSE:SBIN-EQ"}

\* the other components are not running
OthersOffMds ==
  /\ MonOff
  /\ OrdOff
  /\ CliOff
  /\ AppOff
  /\ StratOff

\* the state after the constructor
MdsInit ==
  /\ OthersOffMds
  /\ accessToken \in BOOLEAN
  /\ sock = "null"
  /\ isConnected = FALSE
  /\ subscriptions = {}
  /\ reconnectAttempts = 0
  /\ socketHandlers = 0
  /\ listeners = 0
  /\ timers = 0
  /\ connectCalls = 0
  /\ mdsError = FALSE
  /\ disconnectCalled = FALSE
  /\ awaitingReconnect = FALSE
  /\ lastConnectBy = "none"
  /\ connectAfterDisconnect = FALSE

\* socket.connect() on the socket in state s
AfterSocketConnect(s) == IF s = "open" THEN "open" ELSE "connecting"

\* the listener without its test of the limit
OnDisconnectedUnguarded(a, t) == <<a + 1, t + 1>>

\* the 'disconnected' listener of setupManualReconnect, run with a attempts
\* counted and t timers pending: <<attempts, timers>> afterwards
OnDisconnected(a, t) ==
  IF a < maxReconnectAttempts THEN <<a + 1, t + 1>> ELSE <<a, t>>

\* 'disconnected' delivered n times
RECURSIVE EmitDisconnected(_, _, _)
EmitDisconnected(a, t, n) ==
  IF n = 0 THEN <<a, t>>
  ELSE LET r == OnDisconnected(a, t)
       IN EmitDisconnected(r[1], r[2], n - 1)

\* connect() called by the owner of the service. getInstance hands out the
\* one socket of the process, so every call adds its handlers to the same
\* socket and its listener to the same emitter
Connect ==
  /\ sock # "off"
  /\ connectCalls < MaxConnectCalls
  /\ connectCalls' = connectCalls + 1
  /\ IF ~accessToken
     THEN /\ mdsError' = TRUE
          /\ UNCHANGED <<sock, socketHandlers, listeners, disconnectCalled,
                         awaitingReconnect, lastConnectBy>>
     ELSE /\ socketHandlers' = socketHandlers + 1
          /\ \/ /\ sock' = AfterSocketConnect(sock)
                /\ listeners' = listeners + 1
                /\ lastConnectBy' = "owner"
                /\ awaitingReconnect' = FALSE
                /\ mdsError' = FALSE
             \/ /\ sock' = (IF sock = "null" THEN "idle" ELSE sock)
                /\ mdsError' = TRUE
                /\ UNCHANGED <<listeners, lastConnectBy, awaitingReconnect>>
          /\ disconnectCalled' = FALSE
  /\ UNCHANGED <<accessToken, isConnected, subscriptions, reconnectAttempts,
                 timers, connectAfterDisconnect>>
  /\ UNCHANGED nonMdsVars

\* the socket's "connect" event
SocketConnected ==
  /\ sock = "connecting"
  /\ sock' = "open"
  /\ isConnected' = TRUE
  /\ reconnectAttempts' = 0
  /\ UNCHANGED <<accessToken, subscriptions, socketHandlers, listeners, timers,
                 connectCalls, mdsError, disconnectCalled, awaitingReconnect,
                 lastConnectBy, connectAfterDisconnect>>
  /\ UNCHANGED nonMdsVars

\* the socket's "error" event
SocketError ==
  /\ sock \in {"connecting", "open"}
  /\ isConnected
  /\ isConnected' = FALSE
  /\ UNCHANGED <<accessToken, sock, subscriptions, reconnectAttempts,
                 socketHandlers, listeners, timers, connectCalls, mdsError,
                 disconnectCalled, awaitingReconnect, lastConnectBy,
                 connectAfterDisconnect>>
  /\ UNCHANGED nonMdsVars

\* the socket's "close" event: every registered close handler emits
\* 'disconnected', and every listener of it runs
SocketClose ==
  /\ sock \in {"connecting", "open", "closing"}
  /\ EmitDisconnected(reconnectAttempts, timers,
                      socketHandlers * listeners)[2] <= MaxTimers
  /\ sock' = "closed"
  /\ isConnected' = FALSE
  /\ LET r == EmitDisconnected(reconnectAttempts, timers,
                               socketHandlers * listeners)
     IN /\ reconnectAttempts' = r[1]
        /\ timers' = r[2]
        /\ awaitingReconnect' =
             (awaitingReconnect \/ reconnectAttempts < maxReconnectAttempts)
  /\ UNCHANGED <<accessToken, subscriptions, socketHandlers, listeners,
                 connectCalls, mdsError, disconnectCalled, lastConnectBy,
                 connectAfterDisconnect>>
  /\ UNCHANGED nonMdsVars

\* a reconnect timer whose callback tests isConnected instead of !isConnected
ReconnectTimerFireInverted ==
  /\ timers > 0
  /\ timers' = timers - 1
  /\ IF isConnected
     THEN /\ \/ sock' = AfterSocketConnect(sock)
             \/ UNCHANGED sock
          /\ lastConnectBy' = "timer"
          /\ awaitingReconnect' = FALSE
          /\ connectAfterDisconnect' = (connectAfterDisconnect \/ disconnectCalled)
     ELSE UNCHANGED <<sock, lastConnectBy, awaitingReconnect,
                      connectAfterDisconnect>>
  /\ UNCHANGED <<accessToken, isConnected, subscriptions, reconnectAttempts,
                 socketHandlers, listeners, connectCalls, mdsError,
                 disconnectCalled>>
  /\ UNCHANGED nonMdsVars

\* a reconnect timer fires
ReconnectTimerFire ==
  /\ timers > 0
  /\ timers' = timers - 1
  /\ IF ~isConnected
     THEN /\ \/ sock' = AfterSocketConnect(sock)
             \/ UNCHANGED sock
          /\ lastConnectBy' = "timer"
          /\ awaitingReconnect' = FALSE
          /\ connectAfterDisconnect' = (connectAfterDisconnect \/ disconnectCalled)
     ELSE UNCHANGED <<sock, lastConnectBy, awaitingReconnect,
                      connectAfterDisconnect>>
  /\ UNCHANGED <<accessToken, isConnected, subscriptions, reconnectAttempts,
                 socketHandlers, listeners, connectCalls, mdsError,
                 disconnectCalled>>
  /\ UNCHANGED nonMdsVars

\* subscribe(symbols)
Subscribe ==
  /\ sock # "off"
  /\ isConnected
  /\ \E s \in FeedSymbols :
       /\ s \notin subscriptions
       /\ subscriptions' = subscriptions \cup {s}
  /\ UNCHANGED <<accessToken, sock, isConnected, reconnectAttempts,
                 socketHandlers, listeners, timers, connectCalls, mdsError,
                 disconnectCalled, awaitingReconnect, lastConnectBy,
                 connectAfterDisconnect>>
  /\ UNCHANGED nonMdsVars

\* disconnect() called by the owner; the socket may answer close() with its
\* "close" event
Disconnect ==
  /\ sock \notin {"off", "null"}
  /\ ~disconnectCalled
  /\ sock' = (IF sock \in {"connecting", "open"} THEN "closing" ELSE sock)
  /\ isConnected' = FALSE
  /\ subscriptions' = {}
  /\ disconnectCalled' = TRUE
  /\ connectAfterDisconnect' = FALSE
  /\ UNCHANGED <<accessToken, reconnectAttempts, socketHandlers, listeners,
                 timers, connectCalls, mdsError, awaitingReconnect,
                 lastConnectBy>>
  /\ UNCHANGED nonMdsVars

MdsNext ==
  \/ Connect
  \/ SocketConnected
  \/ SocketError
  \/ SocketClose
  \/ ReconnectTimerFire
  \/ Subscribe
  \/ Disconnect

SpecMds == MdsInit /\ [][MdsNext]_vars

\* a timer that was set fires
SpecMdsFair == SpecMds /\ WF_vars(ReconnectTimerFire)

(* ------------------------ TradingApp.initialize ------------------------ *)
\* what a gateway error may say: response.message, or the message of an
\* exception of the SDK or the network
GatewayMessages == {"invalid token", "ECONNREFUSED"}

Names == {Undefined, <<"Asha">>}
Emails == {Undefined, <<"asha@example.com">>}

\* the profile responses with s === 'ok'
ProfileResponses ==
  [outcome : {"ok"}, name : Names, display_name : Names, email : Emails,
   email_id : Emails]

\* a || b || c on strings that may be undefined
FirstOf(a, b, c) == IF a # Undefined THEN a[1] ELSE IF b # Undefined THEN b[1] ELSE c

\* error.message.includes(part), a message being the sequence of its parts
Includes(msg, part) == \E i \in DOMAIN msg : msg[i] = part

\* the other components are not running; the configuration is shared
OthersOffApp ==
  /\ MonOff
  /\ OrdOff
  /\ CliOff
  /\ MdsIdle
  /\ StratOff

\* the state after the constructor
AppInit ==
  /\ OthersOffApp
  /\ accessToken \in BOOLEAN
  /\ apc = "start"
  /\ isRunning = FALSE
  /\ profile = NoProfile
  /\ funds = "none"
  /\ netPositions = "none"
  /\ connectedAs = <<>>
  /\ initError = <<>>

\* the outer catch of initialize
OuterCatch(msg) ==
  /\ initError' = msg
  /\ IF Includes(msg, "Profile fetch failed")
     THEN apc' = "thrown" /\ UNCHANGED isRunning
     ELSE apc' = "returned" /\ isRunning' = TRUE

\* initialize up to its first await
InitializeStart ==
  /\ apc = "start"
  /\ apc' = (IF ~accessToken THEN "awaitAuthUrl" ELSE "awaitProfile")
  /\ UNCHANGED <<isRunning, profile, funds, netPositions, connectedAs,
                 initError>>
  /\ UNCHANGED nonAppVars

\* await this.generateAccessToken(): it returns, or generateAuthUrl threw
AuthUrlDone ==
  /\ apc = "awaitAuthUrl"
  /\ \/ /\ apc' = "returned"
        /\ UNCHANGED <<isRunning, initError>>
     \/ \E m \in GatewayMessages : OuterCatch(<<m>>)
  /\ UNCHANGED <<profile, funds, netPositions, connectedAs>>
  /\ UNCHANGED nonAppVars

\* await this.fyersService.getProfile(): an 'ok' response, an error response
\* (getProfile throws 'Profile fetch failed: ' + message) or an exception of
\* get_profile itself, which getProfile throws on unchanged
ProfileDone ==
  /\ apc = "awaitProfile"
  /\ \/ \E r \in ProfileResponses :
          /\ profile' = r
          /\ connectedAs' = <<FirstOf(r.name, r.display_name, "Unknown"),
                              FirstOf(r.email, r.email_id, "Not available")>>
          /\ apc' = "awaitFunds"
          /\ UNCHANGED <<isRunning, initError>>
     \/ \E m \in GatewayMessages :
          /\ profile' = [NoProfile EXCEPT !.outcome = "errorResponse"]
          /\ OuterCatch(<<"Profile fetch failed", m>>)
          /\ UNCHANGED connectedAs
     \/ \E m \in GatewayMessages :
          /\ profile' = [NoProfile EXCEPT !.outcome = "exception"]
          /\ OuterCatch(<<m>>)
          /\ UNCHANGED connectedAs
  /\ UNCHANGED <<funds, netPositions>>
  /\ UNCHANGED nonAppVars

\* the funds fetch, in its own try/catch
FundsDone ==
  /\ apc = "awaitFunds"
  /\ funds' \in {"ok", "unexpected", "threw"}
  /\ apc' = "awaitPositions"
  /\ UNCHANGED <<isRunning, profile, netPositions, connectedAs, initError>>
  /\ UNCHANGED nonAppVars

\* the positions fetch, in its own try/catch, and the end of the try block
PositionsDone ==
  /\ apc = "awaitPositions"
  /\ netPositions' \in {"some", "empty", "threw"}
  /\ isRunning' = TRUE
  /\ apc' = "returned"
  /\ UNCHANGED <<profile, funds, connectedAs, initError>>
  /\ UNCHANGED nonAppVars

AppNext ==
  \/ InitializeStart
  \/ AuthUrlDone
  \/ ProfileDone
  \/ FundsDone
  \/ PositionsDone

SpecApp == AppInit /\ [][AppNext]_vars

(* ---------------------------- SampleStrategy --------------------------- *)
\* the periods of the two moving averages, scaled down
shortPeriod == 1
longPeriod == 2

MaxStrategyTicks == 4

\* the defaults of BaseStrategy
maxPositionSize == 100000
riskPercentage == 2
stopLossPercentage == 5

Watched == "NSE:SBIN-EQ"
TickSymbols == {Watched, "NSE:INFY-EQ"}
TickPrices == {0, 90, 100, 110}
PositionQuantities == {-10, 0, 10}
AvgPrices == {100, 110}

OthersOffStrat ==
  /\ MonOff
  /\ OrdOff
  /\ CliOff
  /\ MdsOff
  /\ AppOff

\* the state after the constructor
StratInit ==
  /\ OthersOffStrat
  /\ isActive = FALSE
  /\ priceHistory = <<>>
  /\ position = Undefined
  /\ ticks = 0
  /\ emitted = <<>>
  /\ tickHadPosition = FALSE

RECURSIVE Sum(_)
Sum(s) == IF s = <<>> THEN 0 ELSE Head(s) + Sum(Tail(s))

Min(a, b) == IF a <= b THEN a ELSE b

\* history.push(price), cut to the last longPeriod + 10 prices
updatePriceHistory(history, price) ==
  LET h == Append(history, price)
      maxHistory == longPeriod + 10
  IN IF Len(h) > maxHistory THEN SubSeq(h, Len(h) - maxHistory + 1, Len(h)) ELSE h

\* calculateSMA: null, or the sum of the last period prices; the average is
\* that sum over period, and averages are compared by cross-multiplication
calculateSMA(history, period) ==
  IF Len(history) < period THEN Undefined
  ELSE <<Sum(SubSeq(history, Len(history) - period + 1, Len(history)))>>

\* calculatePreviousSMA: the same without the latest price
calculatePreviousSMA(history, period) ==
  IF Len(history) < period + 1 THEN Undefined
  ELSE <<Sum(SubSeq(history, Len(history) - period, Len(history) - 1))>>

\* !ma
NoMA(ma) == ma = Undefined \/ ma[1] = 0

\* short average compared with long average
ShortAbove(s, l) == s[1] * longPeriod > l[1] * shortPeriod
ShortBelow(s, l) == s[1] * longPeriod < l[1] * shortPeriod

\* calculatePositionSize(symbol, price)
calculatePositionSize(price) ==
  IF price * stopLossPercentage <= 0 THEN 0
  ELSE Min((maxPositionSize * riskPercentage) \div (price * stopLossPercentage),
           maxPositionSize \div price)

\* checkRiskLimits with no position open in any symbol
checkRiskLimits(quantity, price) ==
  /\ ~(quantity * price > maxPositionSize)
  /\ ~(quantity * price > maxPositionSize * 3)

\* generateBuySignal: the signals it emits
generateBuySignal(price) ==
  IF calculatePositionSize(price) <= 0 THEN <<>>
  ELSE <<[type |-> "BUY", price |-> price,
          quantity |-> calculatePositionSize(price)]>>

\* generateSellSignal: the signals it emits
generateSellSignal(pos, price) ==
  LET sellQuantity == IF pos # Undefined THEN pos[1].quantity ELSE 0
  IN IF sellQuantity <= 0 THEN <<>>
     ELSE <<[type |-> "SELL", price |-> price, quantity |-> sellQuantity]>>

\* checkStopLoss: currentPrice <= avgPrice * (1 - stopLossPercentage / 100)
checkStopLoss(pos, currentPrice) ==
  IF pos = Undefined THEN <<>>
  ELSE IF currentPrice * 100 <= pos[1].avgPrice * (100 - stopLossPercentage)
  THEN generateSellSignal(pos, currentPrice)
  ELSE <<>>

\* checkForSignals: the signals emitted, in order
checkForSignals(history, currentPrice, suitable, pos) ==
  LET shortMA == calculateSMA(history, shortPeriod)
      longMA == calculateSMA(history, longPeriod)
      prevShortMA == calculatePreviousSMA(history, shortPeriod)
      prevLongMA == calculatePreviousSMA(history, longPeriod)
      hasPosition == pos # Undefined
  IN IF NoMA(shortMA) \/ NoMA(longMA) THEN <<>>
     ELSE IF NoMA(prevShortMA) \/ NoMA(prevLongMA) THEN <<>>
     ELSE IF ~suitable THEN <<>>
     ELSE (IF /\ ~ShortAbove(prevShortMA, prevLongMA)
              /\ ShortAbove(shortMA, longMA)
              /\ ~hasPosition
           THEN IF checkRiskLimits(calculatePositionSize(currentPrice), currentPrice)
                THEN generateBuySignal(currentPrice)
                ELSE <<>>
           ELSE IF /\ ~ShortBelow(prevShortMA, prevLongMA)
                   /\ ShortBelow(shortMA, longMA)
                   /\ hasPosition
           THEN generateSellSignal(pos, currentPrice)
           ELSE <<>>)
          \o (IF hasPosition THEN checkStopLoss(pos, currentPrice) ELSE <<>>)

\* start() and stop()
StrategyStart ==
  /\ ticks >= 0
  /\ ~isActive
  /\ isActive' = TRUE
  /\ UNCHANGED <<priceHistory, position, ticks, emitted, tickHadPosition>>
  /\ UNCHANGED nonStratVars

StrategyStop ==
  /\ ticks >= 0
  /\ isActive
  /\ isActive' = FALSE
  /\ UNCHANGED <<priceHistory, position, ticks, emitted, tickHadPosition>>
  /\ UNCHANGED nonStratVars

\* updatePosition(symbol, quantity, avgPrice), called as fills are reported
updatePosition ==
  /\ ticks >= 0
  /\ \E q \in PositionQuantities, a \in AvgPrices :
       position' = (IF q = 0 THEN Undefined
                    ELSE <<[quantity |-> q, avgPrice |-> a]>>)
  /\ UNCHANGED <<isActive, priceHistory, ticks, emitted, tickHadPosition>>
  /\ UNCHANGED nonStratVars

\* onTick(data) with processMarketData; suitable: what isMarketSuitable
\* answers at the time of the tick
onTick ==
  /\ ticks >= 0
  /\ ticks < MaxStrategyTicks
  /\ ticks' = ticks + 1
  /\ tickHadPosition' = (position # Undefined)
  /\ \E symbol \in TickSymbols, ltp \in TickPrices, suitable \in BOOLEAN :
       IF ~isActive \/ symbol # Watched \/ ltp <= 0
       THEN /\ emitted' = <<>>
            /\ UNCHANGED priceHistory
       ELSE /\ priceHistory' = updatePriceHistory(priceHistory, ltp)
            /\ emitted' = checkForSignals(updatePriceHistory(priceHistory, ltp),
                                          ltp, suitable, position)
  /\ UNCHANGED <<isActive, position>>
  /\ UNCHANGED nonStratVars

StratNext ==
  \/ StrategyStart
  \/ StrategyStop
  \/ updatePosition
  \/ onTick

SpecStrategy == StratInit /\ [][StratNext]_vars

(* ------------------------------ properties ----------------------------- *)
\* the status words by which the broker reports a fill
FilledWords == {"COMPLETE", "FILLED"}

\* C1: during a bracket's lifetime at most one of the two sibling
\* cancellations (cancel the stop-loss, cancel the take-profit) is invoked,
\* also when callback invocations overlap.
C1_AtMostOneSiblingCancelled ==
  ~ \E i, j \in 1..Len(cancelLog) :
      cancelLog[i].of = "SL" /\ cancelLog[j].of = "TP"

\* C2: a snapshot that shows both siblings filled resolves the bracket to
\* RESOLVED_UNKNOWN and the invocation that saw it issues no cancelOrder call.
C2_BothFilledIsUnknown ==
  /\ \A t \in inflight :
       (t.tp \in FilledWords /\ t.sl \in FilledWords) => t.cancels = <<>>
  /\ (lastTick.tp \in FilledWords /\ lastTick.sl \in FilledWords) =>
       (lastTick.result = "RESOLVED_UNKNOWN" /\ lastTick.cancels = <<>>)

\* C3: an invocation whose snapshot shows the take-profit filled and the
\* stop-loss still pending/open issues exactly one cancelOrder call, for the
\* stop-loss order id, and leaves the bracket in RESOLVED_PROFIT with the
\* monitor stopped.
C3_ProfitCancelsStop ==
  /\ \A t \in inflight :
       (t.tp \in FilledWords /\ t.sl \in NonTerminal) =>
         (t.pc = "cancelSL" /\ t.cancels = <<"SL">> /\ slOrderId = "SL")
  /\ (lastTick.tp \in FilledWords /\ lastTick.sl \in NonTerminal) =>
       /\ lastTick.result = "RESOLVED_PROFIT"
       /\ lastTick.cancels = <<"SL">>
       /\ resolution = "RESOLVED_PROFIT"
       /\ ~monitoringActive /\ ~intervalSet

C3_Witness ==
  /\ lastTick.result = "RESOLVED_PROFIT"
  /\ lastTick.tp = "COMPLETE"
  /\ lastTick.sl = "OPEN"
  /\ cancelLog = <<[of |-> "SL", id |-> "SL"]>>

\* C4: an invocation whose snapshot shows the stop-loss filled and the
\* take-profit still pending/open issues one cancelOrder call, for the
\* take-profit order id, and leaves the bracket in RESOLVED_LOSS.
C4_LossCancelsTakeProfit ==
  /\ \A t \in inflight :
       (t.sl \in FilledWords /\ t.tp \in NonTerminal) =>
         (t.pc = "cancelTP" /\ t.cancels = <<"TP">> /\ tpOrderId = "TP")
  /\ (lastTick.sl \in FilledWords /\ lastTick.tp \in NonTerminal) =>
       /\ lastTick.result = "RESOLVED_LOSS"
       /\ lastTick.cancels = <<"TP">>
       /\ resolution = "RESOLVED_LOSS"
       /\ ~monitoringActive /\ ~intervalSet

C4_Witness ==
  /\ lastTick.result = "RESOLVED_LOSS"
  /\ lastTick.sl = "FILLED"
  /\ lastTick.tp = "PENDING"
  /\ cancelLog = <<[of |-> "TP", id |-> "TP"]>>

C6_FetchFailureIsSkipped ==
  [][(lastTick' # lastTick /\ lastTick'.result = "fetchError") =>
       /\ resolution' = resolution
       /\ reports' = reports
       /\ cancelLog' = cancelLog
       /\ monitoringActive' = monitoringActive
       /\ intervalSet' = intervalSet
       /\ gateway' = gateway]_vars

C6_Witness ==
  /\ lastTick.result = "fetchError"
  /\ lastTick.n >= maxMonitorTime
  /\ resolution = "ACTIVE"
  /\ monitoringActive

\* C7: when maxMonitorTime invocations have run and none saw a fill, the
\* bracket is EXPIRED and the monitor has stopped, whatever fetches failed.
C7_ExpiredAfterMaxTicks ==
  (/\ pc = "monitoring"
   /\ tpOrderId # NULL /\ slOrderId # NULL
   /\ monitorCount >= maxMonitorTime
   /\ inflight = {}
   /\ cancelLog = <<>>)
  => (resolution = "EXPIRED" /\ ~monitoringActive /\ ~intervalSet)

\* C8: an invocation whose cancelOrder call failed still resolves the bracket
\* to RESOLVED_PROFIT / RESOLVED_LOSS, with the failure recorded, the monitor
\* stopped and no exception leaving the callback.
C8_CancelFailureResolves ==
  lastTick.cancelFailed =>
    /\ lastTick.result = (IF lastTick.tp \in FilledWords
                          THEN "RESOLVED_PROFIT" ELSE "RESOLVED_LOSS")
    /\ resolution = lastTick.result
    /\ cancellationFailed
    /\ ~monitoringActive /\ ~intervalSet
    /\ ~unhandled

C8_Witness ==
  /\ lastTick.cancelFailed
  /\ lastTick.result = "RESOLVED_LOSS"
  /\ lastTick.cancels = <<"TP">>
  /\ gateway["TP"] \in NonTerminal

\* C9: once a failed cancel has been recorded for the bracket, no further
\* cancelOrder call is issued for it.
C9_NoCancelAfterRecordedFailure ==
  [][cancellationFailed => Len(cancelLog') = Len(cancelLog)]_vars

\* C10: the polling interval runs only when both the take-profit and the
\* stop-loss placement were acknowledged.
C10_MonitorOnlyAfterBothPlaced ==
  (intervalSet \/ pc = "monitoring") =>
    (tpOrderId # NULL /\ slOrderId # NULL)

\* C11: the user's stop (SIGINT) issues no cancelOrder call and leaves the
\* orders at the broker as they are; from then on no invocation of the
\* callback evaluates the bracket or calls the gateway.
C11_StopTouchesNoOrder ==
  [][pc' = "exited" =>
       /\ cancelLog' = cancelLog
       /\ inflight' = {}
       /\ monitorCount' = monitorCount
       /\ resolution' = resolution
       /\ reports' = reports
       /\ ~monitoringActive' /\ ~intervalSet'
       /\ (pc # "exited" => gateway' = gateway)]_vars

C11_Witness ==
  /\ pc = "exited"
  /\ monitorCount >= 1
  /\ gateway["TP"] \in NonTerminal
  /\ gateway["SL"] = "FILLED"
  /\ cancelLog = <<>>

\* C12 (as stated): after an invocation whose snapshot holds neither sibling
\* the bracket is ACTIVE and no cancelOrder call was issued.
C12_AbsenceStaysActive ==
  (/\ tpOrderId # NULL /\ slOrderId # NULL
   /\ lastTick.tp = NONE /\ lastTick.sl = NONE)
  => (lastTick.result = "ACTIVE" /\ resolution = "ACTIVE"
      /\ lastTick.cancels = <<>>)

\* C12 (amended): an invocation whose snapshot holds neither sibling issues no
\* cancelOrder call and never resolves the bracket as profit or loss; it leaves
\* the bracket as it was, unless the tick counter has reached maxMonitorTime,
\* in which case that invocation expires it.
C12_AbsenceNeverResolves ==
  [][/\ \A t \in inflight' :
          (t.tp = NONE /\ t.sl = NONE) => t.cancels = <<>>
     /\ (lastTick' # lastTick /\ lastTick'.tp = NONE /\ lastTick'.sl = NONE) =>
          /\ lastTick'.cancels = <<>>
          /\ cancelLog' = cancelLog
          /\ gateway' = gateway
          /\ IF monitorCount >= maxMonitorTime
             THEN lastTick'.result = "EXPIRED" /\ resolution' = "EXPIRED"
             ELSE /\ lastTick'.result = "ACTIVE"
                  /\ resolution' = resolution
                  /\ monitoringActive' = monitoringActive
                  /\ intervalSet' = intervalSet]_vars

C12_Witness ==
  /\ tpOrderId = "TP" /\ slOrderId = "SL"
  /\ gateway["TP"] \in FilledWords
  /\ lastTick.tp = NONE /\ lastTick.sl = NONE
  /\ lastTick.result = "ACTIVE"
  /\ resolution = "ACTIVE" /\ monitoringActive
  /\ cancelLog = <<>>

\* C13 (as stated): after an invocation whose snapshot shows neither sibling
\* filled and at least one of them pending or open, the bracket is ACTIVE and
\* no cancelOrder call was issued.
C13_NoFillStaysActive ==
  (/\ tpOrderId # NULL /\ slOrderId # NULL
   /\ lastTick.tp \notin FilledWords /\ lastTick.sl \notin FilledWords
   /\ (lastTick.tp \in NonTerminal \/ lastTick.sl \in NonTerminal))
  => (lastTick.result = "ACTIVE" /\ lastTick.cancels = <<>>)

\* C13 (amended): such an invocation issues no cancelOrder call and leaves the
\* bracket as it was, unless the tick counter has reached maxMonitorTime, in
\* which case it expires the bracket; and every cancelOrder call is issued by
\* an invocation whose snapshot shows the other sibling filled.
C13_NoFillNoCancel ==
  [][/\ \A t \in inflight' :
          t.cancels # <<>> =>
            \/ t.pc = "cancelSL" /\ t.tp \in FilledWords
            \/ t.pc = "cancelTP" /\ t.sl \in FilledWords /\ t.tp \notin FilledWords
     /\ cancelLog' # cancelLog =>
          \E t \in inflight' :
            /\ t.cancels = <<cancelLog'[Len(cancelLog')].id>>
            /\ (t.tp \in FilledWords \/ t.sl \in FilledWords)
     /\ (/\ lastTick' # lastTick
         /\ lastTick'.tp \notin FilledWords /\ lastTick'.sl \notin FilledWords
         /\ (lastTick'.tp \in NonTerminal \/ lastTick'.sl \in NonTerminal)) =>
          /\ lastTick'.cancels = <<>>
          /\ cancelLog' = cancelLog
          /\ IF monitorCount >= maxMonitorTime
             THEN lastTick'.result = "EXPIRED" /\ resolution' = "EXPIRED"
             ELSE /\ lastTick'.result = "ACTIVE"
                  /\ resolution' = resolution
                  /\ monitoringActive' = monitoringActive
                  /\ intervalSet' = intervalSet]_vars

C13_Witness ==
  /\ lastTick.tp = "CANCELLED"
  /\ lastTick.sl = "OPEN"
  /\ lastTick.result = "ACTIVE"
  /\ resolution = "ACTIVE" /\ monitoringActive
  /\ cancelLog = <<>>

\* C14: an invocation whose snapshot shows both siblings cancelled or rejected
\* resolves the bracket to RESOLVED_UNKNOWN without a cancelOrder call and
\* ends the monitoring.
C14_BothDeadIsUnknown ==
  (/\ lastTick.tp \in {"CANCELLED", "REJECTED"}
   /\ lastTick.sl \in {"CANCELLED", "REJECTED"})
  => (/\ lastTick.result = "RESOLVED_UNKNOWN"
      /\ lastTick.cancels = <<>>
      /\ ~monitoringActive /\ ~intervalSet)

\* C15: the terminal report is produced exactly once per bracket: never
\* twice, and once when the monitor has stopped by itself.
C15_ReportedOnce ==
  /\ Len(reports) <= 1
  /\ (pc = "monitoring" /\ ~monitoringActive /\ inflight = {}) =>
       Len(reports) = 1

\* C16: the invocation that expires the bracket issues no cancelOrder call
\* and leaves the orders at the broker as they are.
C16_ExpiryCancelsNothing ==
  [][(lastTick' # lastTick /\ lastTick'.result = "EXPIRED") =>
       /\ lastTick'.cancels = <<>>
       /\ cancelLog' = cancelLog
       /\ gateway' = gateway
       /\ ~monitoringActive' /\ ~intervalSet']_vars

C16_Witness ==
  /\ resolution = "EXPIRED"
  /\ reports = <<"EXPIRED">>
  /\ gateway["TP"] \in NonTerminal
  /\ gateway["SL"] \in NonTerminal
  /\ cancelLog = <<>>
  /\ inflight = {}

C18_ZeroQuantityMessage ==
  (/\ opc \in {"awaitGateway", "returned", "rejected"}
   /\ orderData.symbol # Undefined
   /\ orderData.side \in {<<1>>, <<-1>>}
   /\ orderData.quantity = <<0>>)
  => (/\ opc = "rejected"
      /\ error.msg = "Order quantity must be greater than 0"
      /\ placeCalls = 0)

\* C19: placeOrder of an order that lacks symbol, quantity or side is rejected
\* with an error that names exactly the fields that are missing, and sends no
\* place_order request.
C19_MissingFieldsNamed ==
  LET lacking == SelectSeq(<<"symbol", "quantity", "side">>,
                           LAMBDA f : orderData[f] = Undefined)
      named == [i \in 1..Len(lacking) |->
                  IF lacking[i] = "quantity" THEN "qty" ELSE lacking[i]]
  IN (/\ opc \in {"awaitGateway", "returned", "rejected"}
      /\ lacking # <<>>
      /\ orderData.quantity # <<0>> /\ orderData.side # <<0>>)
     => (/\ opc = "rejected"
         /\ error.msg = "Missing required order fields"
         /\ error.fields = named
         /\ placeCalls = 0)

\* C20: an order with a symbol, a positive quantity and a side other than 1
\* and -1 is rejected by validateOrderData with 'Order side must be 1 (Buy) or
\* -1 (Sell)', so placeOrder never sends it.
C20_InvalidSideRejected ==
  (/\ opc \notin {"idle", "off"}
   /\ orderData.symbol # Undefined
   /\ orderData.quantity = <<10>>
   /\ orderData.side = <<2>>)
  => (/\ error.msg = "Order side must be 1 (Buy) or -1 (Sell)"
      /\ placeCalls = 0)

\* C21: validateOrderData rejects a limit order (type 1) whose limitPrice is
\* absent or not positive and a stop order (type 3 or 4) whose stopPrice is
\* absent or not positive; it accepts every market order (type 2) that has a
\* symbol, a positive qty and side 1 or -1.
C21_PriceRequiredForKind ==
  LET NoPrice(p) == p = Undefined \/ p[1] <= 0
  IN opc = "validated" =>
       /\ (order.type = <<1>> /\ NoPrice(order.limitPrice)) => error # NoError
       /\ (order.type \in {<<3>>, <<4>>} /\ NoPrice(order.stopPrice))
            => error # NoError
       /\ (/\ order.type = <<2>>
           /\ order.symbol # Undefined
           /\ order.qty # Undefined /\ order.qty[1] > 0
           /\ order.side \in {<<1>>, <<-1>>}) => error = NoError

\* a limit order, otherwise complete, with a negative limit price was refused
\* for its price
C21_Witness ==
  /\ opc = "validated"
  /\ order.symbol # Undefined /\ order.qty = <<10>> /\ order.side = <<1>>
  /\ order.type = <<1>> /\ order.limitPrice = <<-5>>
  /\ error.msg \in {"Limit price required for limit orders",
                    "Limit price required for limit and stop-limit orders"}

\* C22: after emergencyClose has run with every gateway call succeeding, an
\* opposite-side market order for the full absolute quantity has been placed
\* for every position whose net quantity is not zero.
C22_EveryOpenPositionClosed ==
  (cmd = "emergency-close" /\ cpc = "done" /\ ~gwFailed)
  => \A i \in DOMAIN positions.list :
       LET pos == positions.list[i]
       IN pos.netQty # 0 =>
            \E j \in DOMAIN placed :
              /\ placed[j].symbol = pos.symbol
              /\ placed[j].qty = (IF pos.netQty < 0 THEN -pos.netQty ELSE pos.netQty)
              /\ placed[j].side = (IF pos.netQty > 0 THEN -1 ELSE 1)
              /\ placed[j].type = 2
              /\ placed[j].ok

\* C23: cancelAllOrders issues exactly one cancelOrder call for every order
\* of the fetched order book whose status is PENDING or OPEN and none for any
\* other order, whether or not some of the calls fail.
C23_OneCancelPerPendingOrder ==
  LET Calls(id) == Cardinality({j \in DOMAIN cancelCalls : cancelCalls[j].id = id})
  IN (cmd = "cancel-all" /\ orders # Undefined) =>
       \A i \in DOMAIN orders[1] :
         LET o == orders[1][i]
         IN /\ o.status \notin {"PENDING", "OPEN"} => Calls(o.id) = 0
            /\ Calls(o.id) <= 1
            /\ (cpc = "done" /\ o.status \in {"PENDING", "OPEN"}) => Calls(o.id) = 1

\* the first of two pending orders could not be cancelled and the second was
\* attempted all the same
C23_Witness ==
  /\ cmd = "cancel-all" /\ cpc = "done"
  /\ Len(cancelCalls) = 2
  /\ ~cancelCalls[1].ok
  /\ cancelCalls[2].id # cancelCalls[1].id

\* C24: whenever the market-data socket closes while reconnectAttempts is
\* below maxReconnectAttempts, a socket.connect() call is issued later on
\* without the owner having to act: by a reconnect timer, unless the owner
\* reconnected first.
C24_ReconnectIssued == awaitingReconnect ~> ~awaitingReconnect

\* a reconnect timer has called socket.connect() after a close that the owner
\* did not ask for
C24_Witness ==
  /\ lastConnectBy = "timer"
  /\ sock = "connecting"
  /\ reconnectAttempts >= 1
  /\ connectCalls = 1
  /\ ~disconnectCalled

\* C25: after disconnect() and until the owner calls connect() again, no
\* reconnect timer calls socket.connect() and isConnected stays false.
C25_StaysDisconnected ==
  disconnectCalled => (~isConnected /\ ~connectAfterDisconnect)

\* C28: reconnectAttempts stays between 0 and maxReconnectAttempts; the
\* socket's connect event resets it to 0; and while it equals
\* maxReconnectAttempts no further reconnect timer is set.
C28_AttemptsBounded ==
  /\ [](reconnectAttempts >= 0 /\ reconnectAttempts <= maxReconnectAttempts)
  /\ [][/\ (sock # "open" /\ sock' = "open") => reconnectAttempts' = 0
        /\ reconnectAttempts = maxReconnectAttempts => timers' <= timers]_vars

\* the limit is reached, the socket is closed and no timer is pending
C28_Witness ==
  /\ reconnectAttempts = maxReconnectAttempts
  /\ sock = "closed"
  /\ timers = 0
  /\ ~awaitingReconnect

\* C26: every started monitor stops: the interval is cleared on a fill or, at
\* the latest, by the first invocation numbered maxMonitorTime or higher whose
\* order-list fetch succeeds; it does not stay set forever.
C26_MonitorStops ==
  /\ [](lastTick.n >= maxMonitorTime /\ lastTick.result # "fetchError"
          => ~intervalSet)
  /\ <>[](~intervalSet)

\* the fetch of tick maxMonitorTime failed and a later tick ended the monitor
C26_Witness ==
  /\ lastTick.n > maxMonitorTime
  /\ lastTick.afterError
  /\ lastTick.result = "EXPIRED"
  /\ ~intervalSet
  /\ pc = "monitoring"

\* C27: isRunning is true after initialize only if the profile fetch
\* succeeded: when getProfile failed, for whatever cause, or no access token
\* is configured, isRunning is false once initialize has returned or thrown.
C27_RunningOnlyWithProfile ==
  (apc \in {"returned", "thrown"} /\ profile.outcome # "ok") => ~isRunning

\* C29: processing one market tick emits at most one signal for the symbol;
\* a BUY signal is emitted only while the symbol has no open position and a
\* SELL signal only while it has one.
C29_SignalsMatchPosition ==
  /\ Len(emitted) <= 1
  /\ \A i \in DOMAIN emitted :
       /\ emitted[i].type = "BUY" => ~tickHadPosition
       /\ emitted[i].type = "SELL" => tickHadPosition

====
